---------------------------- MODULE Spec2Model ----------------------------
(***************************************************************************)
(* A model of the prsr tokenizer (src/token.c): the scanner state, the     *)
(* bracket/template bit-stack, eat_token's dispatch rules, the label       *)
(* lookahead and prsr_next_token.  Bytes are one-character strings; NUL    *)
(* stands for the terminating 0 byte that peek_char returns past the end.  *)
(***************************************************************************)
EXTENDS Integers, Sequences, FiniteSets, TLC

VARIABLES
  buf,      \* d->buf: the NUL-terminated input, as a sequence of bytes
  curr,     \* d->curr: offset of the next byte to scan (0-based)
  line_no,  \* d->line_no
  flag,     \* d->flag: 0, FLAG__PENDING_T_BRACE or FLAG__RESUME_LIT
  depth,    \* d->depth
  stack,    \* d->stack: one bit per slot; popped slots keep their bit
  tok,      \* the caller's token slot (token *out)
  last,     \* ghost: what the last call did (entry snapshot, return value)
  toks,     \* ghost: the tokens written so far, in order, each with the oracle's answer
  kinds,    \* ghost: the kinds of the still-open brackets, innermost last
  hist      \* ghost: how many open-bracket, CLOSE and EOF tokens were written

vars == <<buf, curr, line_no, flag, depth, stack, tok, last, toks, kinds, hist>>

-----------------------------------------------------------------------------
\* Bounds of the model.

\* Stack capacity (__STACK_SIZE in the source, scaled down so that overflow is reached).
StackSize == 2

\* Longest buffer drawn exhaustively over the bracket and template bytes.
MaxLen == 4

\* Longest buffer drawn exhaustively over the slash bytes.
MaxSlashLen == 3

\* Longest buffer drawn exhaustively over the label bytes and over whitespace.
MaxTextLen == 3

\* Longest text drawn exhaustively behind a closed template substitution.
MaxTailLen == 3

\* Longest buffer drawn exhaustively over the comment bytes.
MaxCommentLen == 5

\* Longest buffer drawn exhaustively over the operator bytes.
MaxOpLen == 4

\* Longest buffer drawn exhaustively over the regexp bytes.
MaxRegexpLen == 4

\* How far past the end of the buffer the cursor is followed.
MaxOverrun == 2

\* How many EOF tokens a run may emit before the caller stops calling.
MaxEofs == 2

-----------------------------------------------------------------------------
\* Program constants.

FLAG__PENDING_T_BRACE == 1
FLAG__RESUME_LIT == 2

TOKEN_EOF == "EOF"
TOKEN_COMMENT == "COMMENT"
TOKEN_SEMICOLON == "SEMICOLON"
TOKEN_OP == "OP"
TOKEN_COLON == "COLON"
TOKEN_BRACE == "BRACE"
TOKEN_ARRAY == "ARRAY"
TOKEN_PAREN == "PAREN"
TOKEN_TERNARY == "TERNARY"
TOKEN_CLOSE == "CLOSE"
TOKEN_STRING == "STRING"
TOKEN_REGEXP == "REGEXP"
TOKEN_NUMBER == "NUMBER"
TOKEN_DOT == "DOT"
TOKEN_SPREAD == "SPREAD"
TOKEN_ARROW == "ARROW"
TOKEN_T_BRACE == "T_BRACE"
TOKEN_LIT == "LIT"
TOKEN_COMMA == "COMMA"

\* The type -1 of "found nothing", and of a slot that was never written.
NoToken == "NONE"

\* The 0 byte, and the backtick byte (0x60), which a TLA+ string cannot hold.
NUL == "NUL"
BackTick == "BACKTICK"

-----------------------------------------------------------------------------
\* <ctype.h> in the C locale, and isnum of utils.h.

Lower == {"a","b","c","d","e","f","g","h","i","j","k","l","m",
          "n","o","p","q","r","s","t","u","v","w","x","y","z"}
Upper == {"A","B","C","D","E","F","G","H","I","J","K","L","M",
          "N","O","P","Q","R","S","T","U","V","W","X","Y","Z"}
Digits == {"0","1","2","3","4","5","6","7","8","9"}

isspace(c) == c \in {" ", "\t", "\n", "\r", "\f"}
isalpha(c) == c \in Lower \cup Upper
isnum(c) == c \in Digits
isalnum(c) == isalpha(c) \/ isnum(c)

\* A byte with the high bit set (c < 0 as a signed char).
HighBytes == {"\\x80", "\\xff"}

Min(S) == CHOOSE x \in S : \A y \in S : x <= y

-----------------------------------------------------------------------------
\* Reading the buffer.

\* d->buf[i] for 0 <= i <= d->len (the byte at d->len is the terminator).
ByteAt(b, i) == IF i < Len(b) THEN b[i + 1] ELSE NUL

peek_char(b, cur, len) ==
  LET out == cur + len
  IN IF out < Len(b) THEN b[out + 1] ELSE NUL

\* strstr(d->buf + from, find): the offset of the first occurrence, or -1 for NULL.
StrStr(b, from, find) ==
  LET Match(i) == \A k \in 1..Len(find) : i + k <= Len(b) /\ b[i + k] = find[k]
      S == {i \in from..Len(b) : Match(i)}
  IN IF S = {} THEN -1 ELSE Min(S)

\* The '\n' bytes in [from, to).
CountNewlines(b, from, to) == Cardinality({i \in from..(to - 1) : ByteAt(b, i) = "\n"})

-----------------------------------------------------------------------------
\* The bracket stack.

\* stack_inc that sets the bit for a substitution but leaves a slot's old bit
\* in place for an ordinary bracket.
stack_inc_no_clear(dep, stk, t_brace) ==
  IF dep = StackSize
  THEN [ret |-> -1, depth |-> dep, stack |-> stk]
  ELSE [ret |-> 0, depth |-> dep + 1,
        stack |-> IF t_brace # 0 THEN [stk EXCEPT ![dep] = 1] ELSE stk]

\* stack_inc that never marks the slot as a substitution.
stack_inc_no_mark(dep, stk, t_brace) ==
  IF dep = StackSize
  THEN [ret |-> -1, depth |-> dep, stack |-> stk]
  ELSE [ret |-> 0, depth |-> dep + 1, stack |-> [stk EXCEPT ![dep] = 0]]

\* stack_inc that reports success on a full stack without pushing.
stack_inc_no_overflow(dep, stk, t_brace) ==
  IF dep = StackSize
  THEN [ret |-> 0, depth |-> dep, stack |-> stk]
  ELSE [ret |-> 0, depth |-> dep + 1,
        stack |-> [stk EXCEPT ![dep] = IF t_brace # 0 THEN 1 ELSE 0]]

stack_inc(dep, stk, t_brace) ==
  IF dep = StackSize
  THEN [ret |-> -1, depth |-> dep, stack |-> stk]
  ELSE [ret |-> 0, depth |-> dep + 1,
        stack |-> [stk EXCEPT ![dep] = IF t_brace # 0 THEN 1 ELSE 0]]

\* stack_dec that reports the popped bit but forgets to lower depth.
stack_dec_keeps_depth(dep, stk) ==
  IF dep = 0
  THEN [ret |-> -1, depth |-> dep, stack |-> stk]
  ELSE [ret |-> IF stk[dep - 1] = 1 THEN 1 ELSE 0, depth |-> dep, stack |-> stk]

stack_dec(dep, stk) ==
  IF dep = 0
  THEN [ret |-> -1, depth |-> dep, stack |-> stk]
  ELSE [ret |-> IF stk[dep - 1] = 1 THEN 1 ELSE 0, depth |-> dep - 1, stack |-> stk]

-----------------------------------------------------------------------------
\* eat_token.  Each rule yields what eat_token leaves behind: eat->len and
\* eat->type, its return value, the fields of d it may have changed, and how
\* often it called the oracle.

Eaten(len, type, ret, ln, fl, dep, stk, chk) ==
  [len |-> len, type |-> type, ret |-> ret, line_no |-> ln, flag |-> fl,
   depth |-> dep, stack |-> stk, checked |-> chk]

\* The comment rule with the oracle asked before the comment is recognised.
EatComment_asks_oracle(b, cur, next, ln, dep, stk) ==
  LET find == IF next = "/" THEN <<"\n">> ELSE <<"*", "/">>
      search == cur + 2
      at == StrStr(b, search, find)
      len == at - search + 2
  IN IF at = -1
     THEN Eaten(Len(b) - cur, TOKEN_COMMENT, 0, ln, 0, dep, stk, 1)
     ELSE IF next = "/"
     THEN Eaten(len, TOKEN_COMMENT, 0, ln, 0, dep, stk, 1)
     ELSE Eaten(len + 2, TOKEN_COMMENT, 0, ln + CountNewlines(b, search, at), 0, dep, stk, 1)

\* The comment rule looking for the end of the comment from the byte after
\* the first slash, so that the '*' of the opening can close the comment.
EatComment_from_slash(b, cur, next, ln, dep, stk) ==
  LET find == IF next = "/" THEN <<"\n">> ELSE <<"*", "/">>
      at == StrStr(b, cur + 1, find)
  IN IF at = -1
     THEN Eaten(Len(b) - cur, TOKEN_COMMENT, 0, ln, 0, dep, stk, 0)
     ELSE IF next = "/"
     THEN Eaten(at - cur, TOKEN_COMMENT, 0, ln, 0, dep, stk, 0)
     ELSE Eaten(at + 2 - cur, TOKEN_COMMENT, 0, ln + CountNewlines(b, cur, at), 0, dep, stk, 0)

\* Comments: c = '/' and next is '/' or '*'.
EatComment(b, cur, next, ln, dep, stk) ==
  LET find == IF next = "/" THEN <<"\n">> ELSE <<"*", "/">>
      search == cur + 2
      at == StrStr(b, search, find)
      len == at - search + 2
  IN IF at = -1
     THEN Eaten(Len(b) - cur, TOKEN_COMMENT, 0, ln, 0, dep, stk, 0)
     ELSE IF next = "/"
     THEN Eaten(len, TOKEN_COMMENT, 0, ln, 0, dep, stk, 0)
     ELSE Eaten(len + 2, TOKEN_COMMENT, 0, ln + CountNewlines(b, search, at), 0, dep, stk, 0)

\* The bytes of the switch statement.
Punctuation == {";", "?", ":", ",", "(", "[", "{", ")", "]", "}"}

EatOpen(type, ln, dep, stk) ==
  LET s == stack_inc(dep, stk, 0)
  IN Eaten(1, type, s.ret, ln, 0, s.depth, s.stack, 0)

EatClose(ln, dep, stk) ==
  LET s == stack_dec(dep, stk)
  IN Eaten(1, TOKEN_CLOSE, s.ret, ln, 0, s.depth, s.stack, 0)

\* The '}' rule arming the resume flag after every successful pop.
EatCloseBrace_always_resumes(ln, dep, stk) ==
  LET s == stack_dec(dep, stk)
  IN IF s.ret < 0
     THEN Eaten(0, NoToken, s.ret, ln, 0, s.depth, s.stack, 0)
     ELSE Eaten(1, TOKEN_CLOSE, 0, ln, FLAG__RESUME_LIT, s.depth, s.stack, 0)

EatCloseBrace(ln, dep, stk) ==
  LET s == stack_dec(dep, stk)
  IN IF s.ret < 0
     THEN Eaten(0, NoToken, s.ret, ln, 0, s.depth, s.stack, 0)
     ELSE Eaten(1, TOKEN_CLOSE, 0, ln,
                IF s.ret > 0 THEN FLAG__RESUME_LIT ELSE 0, s.depth, s.stack, 0)

EatPunctuation(c, ln, dep, stk) ==
  CASE c = ";" -> Eaten(1, TOKEN_SEMICOLON, 0, ln, 0, dep, stk, 0)
    [] c = "?" -> Eaten(1, TOKEN_TERNARY, 0, ln, 0, dep, stk, 0)
    [] c = ":" -> Eaten(1, TOKEN_COLON, 0, ln, 0, dep, stk, 0)
    [] c = "," -> Eaten(1, TOKEN_COMMA, 0, ln, 0, dep, stk, 0)
    [] c = "(" -> EatOpen(TOKEN_PAREN, ln, dep, stk)
    [] c = "[" -> EatOpen(TOKEN_ARRAY, ln, dep, stk)
    [] c = "{" -> EatOpen(TOKEN_BRACE, ln, dep, stk)
    [] c = ")" -> EatClose(ln, dep, stk)
    [] c = "]" -> EatClose(ln, dep, stk)
    [] c = "}" -> EatCloseBrace(ln, dep, stk)

\* The operator table letting a fourth '>' join a shift.
OpAllowed_four_shifts(c) ==
  IF c \in {"=", "&", "|", "^", "~", "!", "%", "/", "+", "-"} THEN 1
  ELSE IF c \in {"*", "<"} THEN 2
  ELSE IF c = ">" THEN 4
  ELSE 0

\* Operators.  allowed: how many bytes equal to the first may follow it.
OpAllowed(c) ==
  IF c \in {"=", "&", "|", "^", "~", "!", "%", "/", "+", "-"} THEN 1
  ELSE IF c \in {"*", "<"} THEN 2
  ELSE IF c = ">" THEN 3
  ELSE 0

\* while (len < allowed) { c = peek_char(d, ++len); if (c != start) break; }
RECURSIVE OpRun(_, _, _, _, _, _)
OpRun(b, cur, start, c, len, allowed) ==
  IF len < allowed
  THEN LET c1 == peek_char(b, cur, len + 1)
       IN IF c1 # start
          THEN [len |-> len + 1, c |-> c1]
          ELSE OpRun(b, cur, start, c1, len + 1, allowed)
  ELSE [len |-> len, c |-> c]

EatOp(b, cur, start, ln, dep, stk, chk) ==
  LET run == OpRun(b, cur, start, start, 0, OpAllowed(start))
      len == run.len
      c == run.c
  IN IF start = "=" /\ c = ">"
     THEN Eaten(2, TOKEN_ARROW, 0, ln, 0, dep, stk, chk)
     ELSE IF c = start /\ start \in {"+", "-", "|", "&"}
     THEN Eaten(len + 1, TOKEN_OP, 0, ln, 0, dep, stk, chk)
     ELSE IF c = "="
     THEN LET c2 == peek_char(b, cur, len + 1)
          IN IF c2 = "=" /\ start \in {"=", "!"}
             THEN Eaten(len + 2, TOKEN_OP, 0, ln, 0, dep, stk, chk)
             ELSE Eaten(len + 1, TOKEN_OP, 0, ln, 0, dep, stk, chk)
     ELSE Eaten(len, TOKEN_OP, 0, ln, 0, dep, stk, chk)

\* Strings: the loop from start_string, entered with len = 0 after a quote
\* and with len = -1 and start a backtick from resume_lit.
RECURSIVE StringLoop(_, _, _, _, _)
StringLoop(b, cur, start, len0, ln) ==
  LET len == len0 + 1
      c == peek_char(b, cur, len)
  IN IF c = NUL
     THEN [len |-> len, line_no |-> ln, flag |-> 0]
     ELSE IF c = start
     THEN [len |-> len + 1, line_no |-> ln, flag |-> 0]
     ELSE IF c = "\\"
     THEN LET c2 == peek_char(b, cur, len + 1)
          IN StringLoop(b, cur, start, len + 1, IF c2 = "\n" THEN ln + 1 ELSE ln)
     ELSE IF start = BackTick /\ c = "$" /\ peek_char(b, cur, len + 1) = "{"
     THEN [len |-> len, line_no |-> ln, flag |-> FLAG__PENDING_T_BRACE]
     ELSE StringLoop(b, cur, start, len, IF c = "\n" THEN ln + 1 ELSE ln)

\* The string rule stopping before "${" without arming the pending flag.
EatString_drops_pending(b, cur, start, len0, ln, dep, stk) ==
  LET s == StringLoop(b, cur, start, len0, ln)
  IN Eaten(s.len, TOKEN_STRING, 0, s.line_no, 0, dep, stk, 0)

\* The string rule entering the loop as after an opening quote also when a
\* template literal is resumed, so that the first byte of the segment is skipped.
EatString_from_quote(b, cur, start, len0, ln, dep, stk) ==
  LET s == StringLoop(b, cur, start, 0, ln)
  IN Eaten(s.len, TOKEN_STRING, 0, s.line_no, s.flag, dep, stk, 0)

EatString(b, cur, start, len0, ln, dep, stk) ==
  LET s == StringLoop(b, cur, start, len0, ln)
  IN Eaten(s.len, TOKEN_STRING, 0, s.line_no, s.flag, dep, stk, 0)

\* Numbers: for (;;) { if (!(isalnum(c) || c == '.')) break; c = peek_char(d, ++len); }
RECURSIVE NumberLoop(_, _, _, _)
NumberLoop(b, cur, c, len) ==
  IF ~(isalnum(c) \/ c = ".")
  THEN len
  ELSE NumberLoop(b, cur, peek_char(b, cur, len + 1), len + 1)

EatNumber(b, cur, next, ln, dep, stk) ==
  Eaten(NumberLoop(b, cur, next, 1), TOKEN_NUMBER, 0, ln, 0, dep, stk, 0)

EatDot(b, cur, next, ln, dep, stk) ==
  IF next = "." /\ peek_char(b, cur, 2) = "."
  THEN Eaten(3, TOKEN_SPREAD, 0, ln, 0, dep, stk, 0)
  ELSE Eaten(1, TOKEN_DOT, 0, ln, 0, dep, stk, 0)

\* Regular expressions: one pass of the do-while body per call, entered with
\* the byte c that the previous pass (or next) left behind.
\* The regexp loop without character classes: a '[' never sets is_charexpr.
RECURSIVE RegexpLoop_no_class(_, _, _, _, _, _)
RegexpLoop_no_class(b, cur, c, len, is_charexpr, ln) ==
  IF c \notin {"[", "]", "\\"} /\ c = "/"
  THEN [c |-> peek_char(b, cur, len + 1), len |-> len + 1, line_no |-> ln]
  ELSE LET len1 == IF c = "\\" THEN len + 1 ELSE len
           c1 == IF c = "\\" THEN peek_char(b, cur, len1) ELSE c
           ln1 == IF c1 = "\n" THEN ln + 1 ELSE ln
           len2 == len1 + 1
           c2 == peek_char(b, cur, len2)
       IN IF c2 # NUL
          THEN RegexpLoop_no_class(b, cur, c2, len2, FALSE, ln1)
          ELSE [c |-> c2, len |-> len2, line_no |-> ln1]

RECURSIVE RegexpLoop(_, _, _, _, _, _)
RegexpLoop(b, cur, c, len, is_charexpr, ln) ==
  IF c \notin {"[", "]", "\\"} /\ ~is_charexpr /\ c = "/"
  THEN [c |-> peek_char(b, cur, len + 1), len |-> len + 1, line_no |-> ln]
  ELSE LET charexpr1 == IF c = "[" THEN TRUE ELSE IF c = "]" THEN FALSE ELSE is_charexpr
           len1 == IF c = "\\" THEN len + 1 ELSE len
           c1 == IF c = "\\" THEN peek_char(b, cur, len1) ELSE c
           ln1 == IF c1 = "\n" THEN ln + 1 ELSE ln
           len2 == len1 + 1
           c2 == peek_char(b, cur, len2)
       IN IF c2 # NUL
          THEN RegexpLoop(b, cur, c2, len2, charexpr1, ln1)
          ELSE [c |-> c2, len |-> len2, line_no |-> ln1]

\* while (isalnum(c)) { c = peek_char(d, ++len); }
RECURSIVE FlagsLoop(_, _, _, _)
FlagsLoop(b, cur, c, len) ==
  IF isalnum(c) THEN FlagsLoop(b, cur, peek_char(b, cur, len + 1), len + 1) ELSE len

EatRegexp(b, cur, next, ln, dep, stk, chk) ==
  LET r == RegexpLoop(b, cur, next, 1, FALSE, ln)
  IN Eaten(FlagsLoop(b, cur, r.c, r.len), TOKEN_REGEXP, 0, r.line_no, 0, dep, stk, chk)

\* while (c && c != '}') { c = peek_char(d, ++len); }
RECURSIVE EscapeLoop(_, _, _, _)
EscapeLoop(b, cur, c, len) ==
  IF c # NUL /\ c # "}"
  THEN EscapeLoop(b, cur, peek_char(b, cur, len + 1), len + 1)
  ELSE [c |-> c, len |-> len]

\* Literals: one pass of the do-while body per call; the result is len.
RECURSIVE LitLoop(_, _, _, _)
LitLoop(b, cur, c, len) ==
  IF c = "\\"
  THEN LET len2 == len + 2
           c2 == peek_char(b, cur, len2)
       IN IF c2 # "{"
          THEN IF c2 # NUL THEN LitLoop(b, cur, c2, len2) ELSE len2
          ELSE LET e == EscapeLoop(b, cur, c2, len2)
               IN IF e.c # NUL THEN LitLoop(b, cur, e.c, e.len + 1) ELSE e.len + 1
  ELSE LET valid == (IF len # 0 THEN isalnum(c) ELSE isalpha(c))
                      \/ c = "$" \/ c = "_" \/ c \in HighBytes
           c1 == peek_char(b, cur, len + 1)
       IN IF ~valid THEN len
          ELSE IF c1 # NUL THEN LitLoop(b, cur, c1, len + 1) ELSE len + 1

EatLit(b, cur, c, ln, dep, stk, chk) ==
  LET len == LitLoop(b, cur, c, 0)
  IN IF len # 0
     THEN Eaten(len, TOKEN_LIT, 0, ln, 0, dep, stk, chk)
     ELSE Eaten(0, NoToken, 0, ln, 0, dep, stk, chk)

\* What follows the operator block: strings, numbers, dots, regexps, literals.
\* chk tells whether the oracle was called on the way here.
EatRest(b, cur, c, next, ln, dep, stk, chk) ==
  IF c \in {"'", "\"", BackTick} THEN EatString(b, cur, c, 0, ln, dep, stk)
  ELSE IF isnum(c) \/ (c = "." /\ isnum(next)) THEN EatNumber(b, cur, next, ln, dep, stk)
  ELSE IF c = "." THEN EatDot(b, cur, next, ln, dep, stk)
  ELSE IF c = "/" THEN EatRegexp(b, cur, next, ln, dep, stk, chk)
  ELSE EatLit(b, cur, c, ln, dep, stk, chk)

\* The operator block with the sense of the oracle's answer inverted.
EatOpOrRest_inverted(b, cur, c, next, ln, dep, stk, has_value) ==
  IF c = "/" /\ has_value < 0
  THEN Eaten(0, NoToken, has_value, ln, 0, dep, stk, 1)
  ELSE IF c = "/" /\ has_value # 0
  THEN EatRest(b, cur, c, next, ln, dep, stk, 1)
  ELSE IF OpAllowed(c) # 0
  THEN EatOp(b, cur, c, ln, dep, stk, IF c = "/" THEN 1 ELSE 0)
  ELSE EatRest(b, cur, c, next, ln, dep, stk, 0)

\* The operator block turning every oracle failure into -1.
EatOpOrRest_flat_error(b, cur, c, next, ln, dep, stk, has_value) ==
  IF c = "/" /\ has_value < 0
  THEN Eaten(0, NoToken, -1, ln, 0, dep, stk, 1)
  ELSE IF c = "/" /\ has_value = 0
  THEN EatRest(b, cur, c, next, ln, dep, stk, 1)
  ELSE IF OpAllowed(c) # 0
  THEN EatOp(b, cur, c, ln, dep, stk, IF c = "/" THEN 1 ELSE 0)
  ELSE EatRest(b, cur, c, next, ln, dep, stk, 0)

\* The operator block: on '/' the oracle is called, and has_value is its answer.
EatOpOrRest(b, cur, c, next, ln, dep, stk, has_value) ==
  IF c = "/" /\ has_value < 0
  THEN Eaten(0, NoToken, has_value, ln, 0, dep, stk, 1)
  ELSE IF c = "/" /\ has_value = 0
  THEN EatRest(b, cur, c, next, ln, dep, stk, 1)
  ELSE IF OpAllowed(c) # 0
  THEN EatOp(b, cur, c, ln, dep, stk, IF c = "/" THEN 1 ELSE 0)
  ELSE EatRest(b, cur, c, next, ln, dep, stk, 0)

\* eat_token(d, eat, tv), with has_value what tv.check answers if it is called.
eat_token(b, cur, ln, fl, dep, stk, has_value) ==
  LET c == peek_char(b, cur, 0)
      next == peek_char(b, cur, 1)
  IN IF c = NUL
     THEN Eaten(0, TOKEN_EOF, IF dep > 0 THEN 1 ELSE 0, ln, 0, dep, stk, 0)
     ELSE IF fl = FLAG__PENDING_T_BRACE
     THEN LET s == stack_inc(dep, stk, 1)
          IN Eaten(2, TOKEN_T_BRACE, s.ret, ln, 0, s.depth, s.stack, 0)
     ELSE IF fl = FLAG__RESUME_LIT
     THEN EatString(b, cur, BackTick, -1, ln, dep, stk)
     ELSE IF c = "/" /\ next \in {"/", "*"}
     THEN EatComment(b, cur, next, ln, dep, stk)
     ELSE IF c \in Punctuation
     THEN EatPunctuation(c, ln, dep, stk)
     ELSE EatOpOrRest(b, cur, c, next, ln, dep, stk, has_value)

-----------------------------------------------------------------------------
\* lookahead_char, from offset p inside the buffer (p <= d->len).

RECURSIVE SkipSpaces(_, _)
SkipSpaces(b, p) == IF isspace(ByteAt(b, p)) THEN SkipSpaces(b, p + 1) ELSE p

RECURSIVE LookaheadFrom(_, _)
LookaheadFrom(b, p) ==
  LET q == SkipSpaces(b, p)
      c == ByteAt(b, q)
      next == ByteAt(b, q + 1)
      find == IF next = "/" THEN <<"\n">> ELSE <<"*", "/">>
      at == StrStr(b, q + 2, find)
  IN IF c # "/" THEN c
     ELSE IF next \notin {"/", "*"} THEN c
     ELSE IF at = -1 THEN NUL
     ELSE LookaheadFrom(b, IF next = "/" THEN at + 1 ELSE at + 2)

lookahead_char(b, cur, fl) ==
  IF fl = FLAG__RESUME_LIT THEN BackTick ELSE LookaheadFrom(b, cur)

-----------------------------------------------------------------------------
\* prsr_next_token.

\* The whitespace loop while the cursor is inside the buffer: it stops at the
\* terminating 0 byte at the latest.
\* The whitespace loop taking only blanks and tabs for whitespace.
RECURSIVE SkipWhitespace_blanks_only(_, _, _)
SkipWhitespace_blanks_only(b, cur, ln) ==
  IF ByteAt(b, cur) \in {" ", "\t"}
  THEN SkipWhitespace_blanks_only(b, cur + 1, ln)
  ELSE [curr |-> cur, line_no |-> ln]

RECURSIVE SkipWhitespace(_, _, _)
SkipWhitespace(b, cur, ln) ==
  LET c == ByteAt(b, cur)
  IN IF c = "\n" THEN SkipWhitespace(b, cur + 1, ln + 1)
     ELSE IF isspace(c) THEN SkipWhitespace(b, cur + 1, ln)
     ELSE [curr |-> cur, line_no |-> ln]

\* Where the whitespace loop can stop.  With the cursor past the terminator,
\* d->buf[d->curr] is a read outside the string: any byte may come back, so the
\* loop may stop at once or step over bytes it takes for whitespace, counting
\* some of them as newlines.
Skips(b, cur, ln) ==
  IF cur <= Len(b)
  THEN {SkipWhitespace(b, cur, ln)}
  ELSE {r \in [curr : cur..(Len(b) + MaxOverrun), line_no : ln..(ln + MaxOverrun)] :
          r.line_no - ln <= r.curr - cur}

\* out->lit_next_colon.  lookahead_char reads *p without a bounds check: with
\* the cursor past the terminator the byte it finds is arbitrary.
Colons(b, cur, fl, type) ==
  IF type # TOKEN_LIT THEN {FALSE}
  ELSE IF cur > Len(b) /\ fl # FLAG__RESUME_LIT THEN BOOLEAN
  ELSE {lookahead_char(b, cur, fl) = ":"}

\* What the oracle may answer.
OracleVals == {-2, -1, 0, 1}

OpenKinds == {TOKEN_PAREN, TOKEN_ARRAY, TOKEN_BRACE, TOKEN_T_BRACE}

Top(s) == IF s = <<>> THEN NoToken ELSE s[Len(s)]

prsr_next_token(has_value) ==
  /\ hist.eofs < MaxEofs
  /\ \E sk \in Skips(buf, curr, line_no) :
       LET e == eat_token(buf, sk.curr, sk.line_no, flag, depth, stack, has_value)
           failed == e.ret < 0 \/ e.type = NoToken
           ret == IF e.ret < 0 THEN e.ret ELSE IF e.type = NoToken THEN sk.curr ELSE 0
           newcurr == IF failed THEN sk.curr ELSE sk.curr + e.len
       IN \E colon \in Colons(buf, newcurr, e.flag, IF failed THEN NoToken ELSE e.type) :
            LET t == IF failed
                     THEN [tok EXCEPT !.line_no = sk.line_no]
                     ELSE [type |-> e.type, p |-> sk.curr, len |-> e.len,
                           line_no |-> sk.line_no, lit_next_colon |-> colon]
            IN /\ tok' = t
               /\ curr' = newcurr
               /\ line_no' = e.line_no
               /\ flag' = e.flag
               /\ depth' = e.depth
               /\ stack' = e.stack
               /\ toks' = IF failed THEN toks
                          ELSE Append(toks, [type |-> t.type, p |-> t.p, len |-> t.len,
                                             line_no |-> t.line_no,
                                             lit_next_colon |-> t.lit_next_colon,
                                             checked |-> e.checked,
                                             answer |-> IF e.checked = 1 THEN has_value ELSE 0])
               /\ kinds' = IF failed THEN kinds
                           ELSE IF e.type \in OpenKinds THEN Append(kinds, e.type)
                           ELSE IF e.type = TOKEN_CLOSE /\ kinds # <<>>
                           THEN SubSeq(kinds, 1, Len(kinds) - 1)
                           ELSE kinds
               /\ hist' = [opens |-> hist.opens + IF ~failed /\ e.type \in OpenKinds THEN 1 ELSE 0,
                           closes |-> hist.closes + IF ~failed /\ e.type = TOKEN_CLOSE THEN 1 ELSE 0,
                           eofs |-> hist.eofs + IF ~failed /\ e.type = TOKEN_EOF THEN 1 ELSE 0]
               /\ last' = [called |-> TRUE, ret |-> ret, eat_ret |-> e.ret, wrote |-> ~failed,
                           entry_curr |-> curr, entry_line |-> line_no,
                           start |-> sk.curr, c |-> peek_char(buf, sk.curr, 0),
                           next |-> peek_char(buf, sk.curr, 1),
                           flag0 |-> flag, depth0 |-> depth, stack0 |-> stack,
                           top0 |-> Top(kinds), tok0 |-> tok, hist0 |-> hist,
                           ntoks0 |-> Len(toks),
                           checked |-> e.checked,
                           answer |-> IF e.checked = 1 THEN has_value ELSE 0,
                           allzero |-> last.allzero /\ ret = 0]
  /\ UNCHANGED buf

\* prsr_init_token, and a token slot that no call has written yet.
InitOver(buffers) ==
  /\ buf \in buffers
  /\ curr = 0
  /\ line_no = 1
  /\ flag = 0
  /\ depth = 0
  /\ stack = [i \in 0..(StackSize - 1) |-> 0]
  /\ tok = [type |-> NoToken, p |-> 0, len |-> 0, line_no |-> 0, lit_next_colon |-> FALSE]
  /\ last = [called |-> FALSE, ret |-> 0, eat_ret |-> 0, wrote |-> FALSE,
             entry_curr |-> 0, entry_line |-> 1, start |-> 0, c |-> NUL, next |-> NUL,
             flag0 |-> 0, depth0 |-> 0, stack0 |-> [i \in 0..(StackSize - 1) |-> 0],
             top0 |-> NoToken, hist0 |-> [opens |-> 0, closes |-> 0, eofs |-> 0],
             ntoks0 |-> 0,
             tok0 |-> [type |-> NoToken, p |-> 0, len |-> 0, line_no |-> 0,
                       lit_next_colon |-> FALSE],
             checked |-> 0, answer |-> 0, allzero |-> TRUE]
  /\ toks = <<>>
  /\ kinds = <<>>
  /\ hist = [opens |-> 0, closes |-> 0, eofs |-> 0]

\* All byte strings over an alphabet, up to a length.
SeqsUpTo(A, n) == UNION {[1..k -> A] : k \in 0..n}

Next == \E has_value \in OracleVals : prsr_next_token(has_value)

-----------------------------------------------------------------------------
\* Specifications: the scanner run over every buffer of a set.

\* Brackets and template literals.
TemplateBytes == {BackTick, "$", "{", "}", "(", ")", "a"}

\* The three kinds of bracket.
BracketBytes == {"(", ")", "[", "]", "{", "}"}

\* A full stack followed by the start of a template substitution.
OverflowScenarios ==
  {opens \o <<BackTick, "$", "{">> : opens \in [1..StackSize -> {"(", "[", "{"}]}

\* A substitution closed, then an ordinary brace pair in the slot it used;
\* an ordinary brace pair inside a substitution; a slash after a substitution.
TemplateScenarios ==
  { <<BackTick, "$", "{", "}", BackTick, "{", "}">>,
    <<BackTick, "$", "{", "{", "}", "}", BackTick>>,
    <<BackTick, "$", "{", "}", "/", "a", BackTick>>,
    <<BackTick, "$", "{", "[", "]", "]", "a">> }

Init ==
  InitOver(SeqsUpTo(TemplateBytes, MaxLen) \cup SeqsUpTo(BracketBytes, MaxLen)
             \cup OverflowScenarios \cup TemplateScenarios)

Spec == Init /\ [][Next]_vars

\* Slashes: comments, division, regular expressions, and the bytes that can
\* hide a slash or run a token past the end of the buffer.
SlashBytes == {"/", "*", "\n", " ", "a", "\\", "\"", BackTick}

ABG == <<"a", "/", "b", "/", "g">>

SlashScenarios ==
  { ABG,
    <<"\\", "u", "{", "a">>,
    <<"(", "/", "a", "/", ")">>,
    <<BackTick, "$", "{", "}", "/", "a", BackTick>>,
    <<BackTick, "$", "{", "/", "a", "/", "}", BackTick>> }

InitSlash == InitOver(SeqsUpTo(SlashBytes, MaxSlashLen) \cup SlashScenarios)

SpecSlash == InitSlash /\ [][Next]_vars

\* Labels and unknown bytes: identifiers, colons, the trivia the label
\* lookahead skips, and a byte no dispatch rule accepts.
TextBytes == {"#", "a", ":", " ", "\n", "/", "*", "\\"}

\* The bytes the whitespace skip passes over.
WhitespaceBytes == {" ", "\t", "\n", "\r", "\f"}

\* A label behind a comment on each side of a line break; an unknown byte
\* after a token on the second line.
TextScenarios ==
  { <<"a", "/", "*", ":", "*", "/", "\n", ":">>,
    <<"a", " ", "/", "/", ":", "\n", ":", "a">>,
    <<"a", "\n", "a", " ", "#">> }

InitText ==
  InitOver(SeqsUpTo(TextBytes, MaxTextLen) \cup SeqsUpTo(WhitespaceBytes, MaxTextLen)
             \cup TextScenarios)

SpecText == InitText /\ [][Next]_vars

\* Template literals resumed after a substitution: every short text behind
\* a closed substitution, and two whole template literals.
ResumeBytes == {BackTick, "$", "{", "}", " ", "\n", "a", "\\"}

ResumeHead == <<BackTick, "$", "{", "}">>

\* A template literal with text around one substitution.
HiBye ==
  <<BackTick, "h", "i", " ", "$", "{", "x", "}", " ", "b", "y", "e", BackTick>>

\* A template literal inside the substitution of another.
NestedTemplate ==
  <<BackTick, "$", "{", BackTick, "$", "{", "1", "}", BackTick, "}", BackTick>>

InitResume ==
  InitOver({ResumeHead \o tail : tail \in SeqsUpTo(ResumeBytes, MaxTailLen)}
             \cup {HiBye, NestedTemplate})

SpecResume == InitResume /\ [][Next]_vars

\* Comments: their openings and endings, line breaks and plain text.
CommentBytes == {"/", "*", "\n", "a"}

\* A block comment over two lines with an identifier behind it.
TwoLineComment ==
  <<"/", "*", " ", "l", "i", "n", "e", "1", "\n",
    "l", "i", "n", "e", "2", " ", "*", "/", "x">>

InitComment == InitOver(SeqsUpTo(CommentBytes, MaxCommentLen) \cup {TwoLineComment})

SpecComment == InitComment /\ [][Next]_vars

\* Operators: shifts, comparisons and arrows; the doubled operators and
\* their assignment forms.
ShiftBytes == {">", "<", "=", "!"}

PairBytes == {"+", "-", "|", "&", "="}

\* The longest operator with one more byte of each kind behind it.
OpScenarios ==
  { <<">", ">", ">", "=", "=">>,
    <<">", ">", ">", "=", ">">>,
    <<">", ">", ">", ">", "=">> }

InitOp ==
  InitOver(SeqsUpTo(ShiftBytes, MaxOpLen) \cup SeqsUpTo(PairBytes, MaxOpLen)
             \cup OpScenarios)

SpecOp == InitOp /\ [][Next]_vars

\* Regular expressions: slashes, escapes, character classes and a flag.
RegexpBytes == {"/", "\\", "[", "]", "g"}

\* A slash inside a class; an escaped slash; an escaped '[' before a slash; an
\* escaped ']' inside a class; a '[' inside a class; a regexp after a token.
RegexpScenarios ==
  { <<"/", "[", "/", "]", "/", "g">>,
    <<"/", "\\", "/", "/", "g">>,
    <<"/", "\\", "[", "/", "]", "/">>,
    <<"/", "[", "\\", "]", "/", "]", "/", "g">>,
    <<"/", "[", "[", "]", "/", "g", "g", " ", "g">>,
    <<"[", "/", "g", "\n", "/", "g", "7", "]">> }

InitRegexp == InitOver(SeqsUpTo(RegexpBytes, MaxRegexpLen) \cup RegexpScenarios)

SpecRegexp == InitRegexp /\ [][Next]_vars

-----------------------------------------------------------------------------
\* Shorthands for the claims: the call that led to the current state.

\* The last call went through the switch and the rules after it.
Dispatched == last.called /\ last.c # NUL /\ last.flag0 = 0

\* The last call wrote a token of this type into the slot.
Wrote(type) == last.called /\ last.wrote /\ tok.type = type

\* The last call wrote nothing and moved nothing but the whitespace skip.
NothingConsumed ==
  /\ ~last.wrote
  /\ Len(toks) = last.ntoks0
  /\ curr = last.start
  /\ depth = last.depth0
  /\ stack = last.stack0
  /\ hist = last.hist0
  /\ tok = [last.tok0 EXCEPT !.line_no = line_no]

\* The types and lengths of the tokens written so far.
Stream == [i \in 1..Len(toks) |-> <<toks[i].type, toks[i].len>>]

\* The tokens written so far are the start of this stream followed by EOFs.
StreamWithin(expected) ==
  LET full == expected \o [i \in 1..MaxEofs |-> <<TOKEN_EOF, 0>>]
  IN Len(Stream) <= Len(full) /\ Stream = SubSeq(full, 1, Len(Stream))

-----------------------------------------------------------------------------
\* C1: a '}' sets resume-template-literal exactly when the innermost open
\* bracket was pushed by a T_BRACE; the call after such a '}' scans a template
\* segment, and a '}' closing an ordinary '{' is a plain CLOSE after which
\* dispatch is normal, also in a slot that held a substitution bit before.
C1_ResumeIffTemplateBrace ==
  /\ (Dispatched /\ last.c = "}") =>
       /\ (flag = FLAG__RESUME_LIT) <=> (last.top0 = TOKEN_T_BRACE)
       /\ last.top0 # NoToken => Wrote(TOKEN_CLOSE) /\ tok.p = last.start /\ tok.len = 1
       /\ last.top0 \in {TOKEN_BRACE, TOKEN_PAREN, TOKEN_ARRAY} => flag = 0
  /\ (last.called /\ last.c # NUL /\ last.flag0 = FLAG__RESUME_LIT) =>
       Wrote(TOKEN_STRING) /\ tok.p = last.start /\ depth = last.depth0
  /\ (Dispatched /\ last.c \in {"a", "$"} \cup BracketBytes) => ~Wrote(TOKEN_STRING)

\* The second '}' of (backtick)${}(backtick){} pops slot 0, which held the
\* substitution's bit until the ordinary '{' was pushed there.
C1_Witness ==
  /\ buf = <<BackTick, "$", "{", "}", BackTick, "{", "}">>
  /\ last.start = 6
  /\ last.top0 = TOKEN_BRACE
  /\ toks[2].type = TOKEN_T_BRACE
  /\ Wrote(TOKEN_CLOSE)
  /\ flag = 0

-----------------------------------------------------------------------------
\* C2 as stated: after a template STRING that stopped before "${", the next
\* call always writes a T_BRACE of length 2 over "${", pushes a bit-1 entry
\* and leaves the flag clear.
C2_Original ==
  /\ flag = FLAG__PENDING_T_BRACE =>
       Wrote(TOKEN_STRING) /\ ByteAt(buf, curr) = "$" /\ ByteAt(buf, curr + 1) = "{"
  /\ (last.called /\ last.flag0 = FLAG__PENDING_T_BRACE) =>
       /\ Wrote(TOKEN_T_BRACE)
       /\ last.ret = 0
       /\ tok.len = 2 /\ tok.p = last.entry_curr
       /\ ByteAt(buf, tok.p) = "$" /\ ByteAt(buf, tok.p + 1) = "{"
       /\ depth = last.depth0 + 1
       /\ stack[last.depth0] = 1
       /\ flag = 0

\* C2, amended: the same below the stack capacity; at capacity the call
\* returns a negative value and writes no token.
C2_Amended ==
  /\ flag = FLAG__PENDING_T_BRACE =>
       Wrote(TOKEN_STRING) /\ ByteAt(buf, curr) = "$" /\ ByteAt(buf, curr + 1) = "{"
  /\ (last.called /\ last.flag0 = FLAG__PENDING_T_BRACE /\ last.depth0 < StackSize) =>
       /\ Wrote(TOKEN_T_BRACE)
       /\ last.ret = 0
       /\ tok.len = 2 /\ tok.p = last.entry_curr
       /\ ByteAt(buf, tok.p) = "$" /\ ByteAt(buf, tok.p + 1) = "{"
       /\ depth = last.depth0 + 1
       /\ stack[last.depth0] = 1
       /\ flag = 0
  /\ (last.called /\ last.flag0 = FLAG__PENDING_T_BRACE /\ last.depth0 = StackSize) =>
       last.ret < 0 /\ ~last.wrote /\ Len(toks) = last.ntoks0 /\ depth = last.depth0

\* A T_BRACE written right after the STRING that armed the flag, inside an open bracket.
C2_Witness ==
  /\ last.called /\ last.flag0 = FLAG__PENDING_T_BRACE
  /\ Wrote(TOKEN_T_BRACE)
  /\ last.tok0.type = TOKEN_STRING
  /\ depth = 2

-----------------------------------------------------------------------------
\* C3: after every call the cursor is inside the buffer (curr <= len) and the
\* bytes of the token just written, [p, p + len), lie inside the buffer.
C3_TokenInsideBuffer ==
  /\ curr <= Len(buf)
  /\ (last.called /\ last.wrote) => tok.p + tok.len <= Len(buf)

-----------------------------------------------------------------------------
\* C4: a call asks the oracle (once) exactly when its first byte after the
\* whitespace is a '/' that starts no comment and the call did not enter
\* through resume-template-literal; no other call asks it.
C4_OracleOnlyOnSlash ==
  last.called =>
    ((last.checked = 1) <=>
       (last.c = "/" /\ last.next \notin {"/", "*"} /\ last.flag0 # FLAG__RESUME_LIT))

\* The oracle asked at a '/' that follows a newline and a literal.
C4_Witness ==
  /\ last.called /\ last.checked = 1
  /\ last.c = "/" /\ last.start > last.entry_curr
  /\ Len(toks) >= 2

-----------------------------------------------------------------------------
\* C5: at a '/' dispatch a positive answer gives an OP starting at the '/',
\* a zero answer a REGEXP starting at the '/'; a/b/g is LIT(1) OP(1) LIT(1)
\* OP(1) LIT(1) EOF(0) with value-present twice, and LIT(1) REGEXP(4) EOF(0)
\* with no-value at the first slash, whose second slash the oracle never sees.
C5_SlashByOracle ==
  /\ (last.called /\ last.checked = 1 /\ last.answer > 0) =>
       Wrote(TOKEN_OP) /\ tok.p = last.start /\ ByteAt(buf, tok.p) = "/"
  /\ (last.called /\ last.checked = 1 /\ last.answer = 0) =>
       Wrote(TOKEN_REGEXP) /\ tok.p = last.start /\ ByteAt(buf, tok.p) = "/"
  /\ (buf = ABG /\ Wrote(TOKEN_EOF) /\ toks[2].answer > 0 /\ toks[4].answer > 0) =>
       /\ Len(toks) >= 6
       /\ SubSeq(Stream, 1, 6) = << <<TOKEN_LIT, 1>>, <<TOKEN_OP, 1>>, <<TOKEN_LIT, 1>>,
                                    <<TOKEN_OP, 1>>, <<TOKEN_LIT, 1>>, <<TOKEN_EOF, 0>> >>
  /\ (buf = ABG /\ Wrote(TOKEN_EOF) /\ toks[2].answer = 0) =>
       /\ SubSeq(Stream, 1, 3) = << <<TOKEN_LIT, 1>>, <<TOKEN_REGEXP, 4>>, <<TOKEN_EOF, 0>> >>
       /\ \A i \in 3..Len(toks) : toks[i].checked = 0
  /\ (buf = ABG /\ Len(toks) >= 2 /\ toks[2].type = TOKEN_REGEXP /\ toks[2].len = 4
        /\ last.start > 1) => last.checked = 0

\* a/b/g scanned to its end as LIT REGEXP EOF.
C5_Witness ==
  /\ buf = ABG
  /\ Wrote(TOKEN_EOF)
  /\ Stream = << <<TOKEN_LIT, 1>>, <<TOKEN_REGEXP, 4>>, <<TOKEN_EOF, 0>> >>
  /\ toks[2].checked = 1 /\ toks[2].answer = 0

-----------------------------------------------------------------------------
\* C6: depth is the number of open-bracket tokens written minus the number of
\* CLOSE tokens written, between 0 and the capacity; a call that fails
\* changes neither the counts nor depth.
C6_DepthCountsBrackets ==
  /\ depth = hist.opens - hist.closes
  /\ depth = Len(kinds)
  /\ 0 <= depth /\ depth <= StackSize
  /\ (last.called /\ ~last.wrote) => depth = last.depth0 /\ hist = last.hist0

\* A close bracket refused at depth 0 after brackets were opened and closed.
C6_Witness ==
  /\ last.called /\ last.ret < 0 /\ last.c \in {")", "}"}
  /\ hist.opens = 1 /\ hist.closes = 1
  /\ depth = 0

-----------------------------------------------------------------------------
\* C7: never both flags; after a call pending-substitution-open is set only
\* if the call wrote a STRING that stopped before "${", resume-template-literal
\* only if it wrote the CLOSE of a '}' that popped a bit-1 entry; a failed
\* call and an EOF leave both clear.
C7_FlagsFollowLastToken ==
  /\ flag \in {0, FLAG__PENDING_T_BRACE, FLAG__RESUME_LIT}
  /\ flag # 0 => last.called
  /\ flag = FLAG__PENDING_T_BRACE =>
       /\ Wrote(TOKEN_STRING)
       /\ curr = tok.p + tok.len
       /\ ByteAt(buf, curr) = "$" /\ ByteAt(buf, curr + 1) = "{"
  /\ flag = FLAG__RESUME_LIT =>
       /\ Wrote(TOKEN_CLOSE)
       /\ last.c = "}"
       /\ last.depth0 > 0 /\ last.stack0[last.depth0 - 1] = 1
       /\ depth = last.depth0 - 1
  /\ (last.called /\ ~last.wrote) => flag = 0
  /\ Wrote(TOKEN_EOF) => flag = 0

\* Both flags taken in one run: resume armed by the '}' of a substitution that
\* a pending "${" opened.
C7_Witness ==
  /\ flag = FLAG__RESUME_LIT
  /\ last.flag0 = 0
  /\ \E i \in 1..Len(toks) : toks[i].type = TOKEN_T_BRACE

-----------------------------------------------------------------------------
\* C8: an open bracket dispatched at depth = capacity (a '(', '[' or '{', or a
\* pending "${") and a close bracket dispatched at depth = 0 make the call
\* return a negative value, consume nothing, and leave curr on the bracket
\* byte and depth as it was.  (A byte scanned as template text through
\* resume-template-literal is not dispatched as a bracket.)
C8_BracketErrors ==
  /\ (Dispatched /\ last.c \in {"(", "[", "{"} /\ last.depth0 = StackSize) =>
       last.ret < 0 /\ NothingConsumed /\ ByteAt(buf, curr) = last.c
  /\ (last.called /\ last.flag0 = FLAG__PENDING_T_BRACE /\ last.depth0 = StackSize) =>
       last.ret < 0 /\ NothingConsumed /\ ByteAt(buf, curr) = "$"
  /\ (Dispatched /\ last.c \in {")", "]", "}"} /\ last.depth0 = 0) =>
       last.ret < 0 /\ NothingConsumed /\ ByteAt(buf, curr) = last.c

\* A pending "${" refused on a full stack.
C8_Witness ==
  /\ last.called /\ last.flag0 = FLAG__PENDING_T_BRACE
  /\ last.depth0 = StackSize
  /\ last.ret < 0

-----------------------------------------------------------------------------
\* C9: when the oracle answers a negative v at a '/', the call returns v,
\* writes no token, leaves curr on the '/' and depth and the stack unchanged.
C9_OracleErrorVerbatim ==
  (last.called /\ last.checked = 1 /\ last.answer < 0) =>
    /\ last.ret = last.answer
    /\ NothingConsumed
    /\ ByteAt(buf, curr) = "/"

\* The oracle failing with -2 at a '/' inside an open bracket.
C9_Witness ==
  /\ last.called /\ last.checked = 1 /\ last.answer = -2
  /\ last.ret = -2
  /\ depth > 0

-----------------------------------------------------------------------------
\* C10: the call that writes EOF (length 0) returns a positive value when
\* depth > 0 and 0 when depth = 0.
C10_EofSignalsUnbalanced ==
  Wrote(TOKEN_EOF) =>
    /\ tok.len = 0
    /\ depth > 0 => last.ret > 0
    /\ depth = 0 => last.ret = 0

-----------------------------------------------------------------------------
\* C11: when no dispatch rule matches the byte at curr, the call returns a
\* value that differs from the success value 0 and equals the failing offset,
\* at every offset including 0; no token is written and curr stays on the byte.
C11_NoRuleReturnsOffset ==
  (last.called /\ ~last.wrote /\ last.eat_ret = 0)
    => /\ last.ret # 0
       /\ last.ret = last.start
       /\ NothingConsumed

-----------------------------------------------------------------------------
\* C12: a ')' or ']' that pops the entry of a template substitution (the
\* innermost open bracket is a T_BRACE) is reported as a structural error by
\* the return value, not as an ordinary CLOSE with return 0.
C12_CloseOfSubstitutionIsError ==
  (Dispatched /\ last.c \in {")", "]"} /\ last.top0 = TOKEN_T_BRACE)
    => last.ret # 0

-----------------------------------------------------------------------------
\* The last call resumed a template literal on a byte of the buffer.
ResumedString == last.called /\ last.flag0 = FLAG__RESUME_LIT /\ last.c # NUL

\* The byte at offset i of a template segment that starts at offset p follows
\* a backslash that is not itself escaped.
RECURSIVE Escaped(_, _, _)
Escaped(b, p, i) == i > p /\ ByteAt(b, i - 1) = "\\" /\ ~Escaped(b, p, i - 1)

\* Where a template segment that starts at offset p ends: behind the next
\* unescaped backtick, before the next unescaped "${", else at the end of the
\* buffer (one byte beyond it when the last byte is a lone backslash).
SegmentEnd(b, p) ==
  LET Stops == {i \in p..(Len(b) - 1) :
                  /\ ~Escaped(b, p, i)
                  /\ \/ ByteAt(b, i) = BackTick
                     \/ ByteAt(b, i) = "$" /\ ByteAt(b, i + 1) = "{"}
  IN IF Stops # {}
     THEN IF ByteAt(b, Min(Stops)) = BackTick THEN Min(Stops) + 1 ELSE Min(Stops)
     ELSE IF Escaped(b, p, Len(b)) THEN Len(b) + 1 ELSE Len(b)

-----------------------------------------------------------------------------
\* C14 as stated: the nested template literal (11 bytes) is scanned as
\* STRING(2) T_BRACE(2) STRING(2) T_BRACE(2) NUMBER(1) CLOSE(1) STRING(2)
\* CLOSE(1) STRING(1) EOF(0), every call returns 0, and depth is 0 at EOF.
C14_Original ==
  buf = NestedTemplate
    => /\ StreamWithin(<< <<TOKEN_STRING, 2>>, <<TOKEN_T_BRACE, 2>>, <<TOKEN_STRING, 2>>,
                          <<TOKEN_T_BRACE, 2>>, <<TOKEN_NUMBER, 1>>, <<TOKEN_CLOSE, 1>>,
                          <<TOKEN_STRING, 2>>, <<TOKEN_CLOSE, 1>>, <<TOKEN_STRING, 1>> >>)
       /\ last.ret = 0
       /\ Wrote(TOKEN_EOF) => depth = 0

\* C14, amended: the stream is STRING(1) T_BRACE(2) STRING(1) T_BRACE(2)
\* NUMBER(1) CLOSE(1) STRING(1) CLOSE(1) STRING(1) EOF(0): each of the four
\* template segments is the one backtick; every call returns 0, and depth is
\* 0 at EOF.
C14_Amended ==
  buf = NestedTemplate
    => /\ StreamWithin(<< <<TOKEN_STRING, 1>>, <<TOKEN_T_BRACE, 2>>, <<TOKEN_STRING, 1>>,
                          <<TOKEN_T_BRACE, 2>>, <<TOKEN_NUMBER, 1>>, <<TOKEN_CLOSE, 1>>,
                          <<TOKEN_STRING, 1>>, <<TOKEN_CLOSE, 1>>, <<TOKEN_STRING, 1>> >>)
       /\ last.ret = 0
       /\ last.called => last.wrote
       /\ Wrote(TOKEN_EOF) => depth = 0 /\ Len(toks) >= 10 /\ tok.p = Len(buf)

\* The nested template literal scanned to its first EOF, at depth 2 on the way.
C14_Witness ==
  /\ buf = NestedTemplate
  /\ Wrote(TOKEN_EOF)
  /\ Len(toks) = 10
  /\ hist.opens = 2 /\ hist.closes = 2

-----------------------------------------------------------------------------
\* C15: the line_no of every written token (EOF too) is 1 plus the number of
\* '\n' bytes of the buffer strictly before the token's first byte, and it
\* does not decrease from one written token to the next.
C15_LineNoCountsNewlines ==
  (last.called /\ last.wrote)
    => /\ tok.line_no = 1 + CountNewlines(buf, 0, tok.p)
       /\ Len(toks) >= 2 => toks[Len(toks) - 1].line_no <= tok.line_no

-----------------------------------------------------------------------------
\* C16: in a run whose calls all returned 0 up to the first EOF, the tokens
\* start at strictly increasing offsets and do not overlap, every byte before
\* the first token and between two tokens is whitespace, and the EOF sits at
\* the end of the buffer, so that tokens and whitespace add up to the buffer.
C16_TokensTileBuffer ==
  (Wrote(TOKEN_EOF) /\ last.allzero /\ hist.eofs = 1)
    => /\ \A i \in 1..(Len(toks) - 1) :
            /\ toks[i].p < toks[i + 1].p
            /\ toks[i].p + toks[i].len <= toks[i + 1].p
            /\ \A j \in (toks[i].p + toks[i].len)..(toks[i + 1].p - 1) :
                  isspace(ByteAt(buf, j))
       /\ \A j \in 0..(toks[1].p - 1) : isspace(ByteAt(buf, j))
       /\ tok.p + tok.len = Len(buf)

-----------------------------------------------------------------------------
\* The first byte at or after offset p that is neither whitespace nor inside
\* a comment, read byte by byte: mode is "code", "line" (inside //) or
\* "block" (inside /* */); NUL when the buffer ends first.
RECURSIVE FirstCodeByte(_, _, _)
FirstCodeByte(b, p, mode) ==
  LET c == ByteAt(b, p)
      n == ByteAt(b, p + 1)
  IN IF c = NUL THEN NUL
     ELSE IF mode = "line"
     THEN FirstCodeByte(b, p + 1, IF c = "\n" THEN "code" ELSE "line")
     ELSE IF mode = "block"
     THEN IF c = "*" /\ n = "/" THEN FirstCodeByte(b, p + 2, "code")
          ELSE FirstCodeByte(b, p + 1, "block")
     ELSE IF isspace(c) THEN FirstCodeByte(b, p + 1, "code")
     ELSE IF c = "/" /\ n = "/" THEN FirstCodeByte(b, p + 2, "line")
     ELSE IF c = "/" /\ n = "*" THEN FirstCodeByte(b, p + 2, "block")
     ELSE c

\* The tokens written after the i-th that are not comments.
CodeAfter(i) == {j \in (i + 1)..Len(toks) : toks[j].type # TOKEN_COMMENT}

\* C17: lit_next_colon is true on a written token exactly if the token is a
\* LIT and the first byte behind it that is neither whitespace nor inside a
\* comment is ':'; for a LIT this is exactly when the next token written that
\* is not a COMMENT is a COLON; and the lookahead leaves curr, line_no, depth
\* and flag as the LIT left them.
C17_LabelLookahead ==
  /\ \A i \in 1..Len(toks) :
       /\ toks[i].lit_next_colon
            <=> /\ toks[i].type = TOKEN_LIT
                /\ FirstCodeByte(buf, toks[i].p + toks[i].len, "code") = ":"
       /\ (toks[i].type = TOKEN_LIT /\ CodeAfter(i) # {})
            => (toks[i].lit_next_colon <=> toks[Min(CodeAfter(i))].type = TOKEN_COLON)
  /\ Wrote(TOKEN_LIT)
       => /\ curr = tok.p + tok.len
          /\ line_no = tok.line_no
          /\ depth = last.depth0
          /\ flag = 0

-----------------------------------------------------------------------------
\* The last call started a comment that has no end in the buffer.
UnterminatedComment ==
  /\ Dispatched
  /\ last.c = "/"
  /\ \/ last.next = "/" /\ \A i \in (last.start + 2)..(Len(buf) - 1) : buf[i + 1] # "\n"
     \/ last.next = "*" /\ \A i \in (last.start + 2)..(Len(buf) - 2) :
                               ~(buf[i + 1] = "*" /\ buf[i + 2] = "/")

\* The last call started a quoted or template string that has no unescaped
\* closing quote (and, in backticks, no unescaped "${") in the buffer.
UnterminatedString ==
  /\ Dispatched
  /\ last.c \in {"'", "\"", BackTick}
  /\ \A i \in (last.start + 1)..(Len(buf) - 1) :
       \/ Escaped(buf, last.start, i)
       \/ /\ buf[i + 1] # last.c
          /\ ~(last.c = BackTick /\ buf[i + 1] = "$" /\ ByteAt(buf, i + 1) = "{")

\* C18: a comment or string that is not terminated before the end of the
\* buffer is no error: the call returns 0 and writes a COMMENT or STRING whose
\* length is the number of bytes from its first byte to the end of the buffer,
\* curr becomes len, and the call after it writes EOF.
C18_UnterminatedRunsToEnd ==
  /\ UnterminatedComment
       => last.ret = 0 /\ Wrote(TOKEN_COMMENT) /\ tok.p = last.start
            /\ tok.len = Len(buf) - tok.p /\ curr = Len(buf)
  /\ UnterminatedString
       => last.ret = 0 /\ Wrote(TOKEN_STRING) /\ tok.p = last.start
            /\ tok.len = Len(buf) - tok.p /\ curr = Len(buf)
  /\ (last.called /\ last.tok0.type \in {TOKEN_COMMENT, TOKEN_STRING}
        /\ last.tok0.p + last.tok0.len >= Len(buf))
       => Wrote(TOKEN_EOF) /\ last.ret = 0

-----------------------------------------------------------------------------
\* The buffer holds whitespace bytes only (the empty buffer too).
WhitespaceOnly == \A i \in 1..Len(buf) : isspace(buf[i])

\* C19: on a buffer of whitespace bytes only, every call, the first one
\* included, returns 0 and writes EOF of length 0 at offset len; no token of
\* another kind is written and the oracle is never asked.
C19_WhitespaceOnlyIsEof ==
  (WhitespaceOnly /\ last.called)
    => /\ last.ret = 0
       /\ Wrote(TOKEN_EOF)
       /\ tok.len = 0
       /\ tok.p = Len(buf)
       /\ curr = Len(buf)
       /\ last.checked = 0
       /\ \A i \in 1..Len(toks) : toks[i].type = TOKEN_EOF /\ toks[i].checked = 0
       /\ Len(toks) = hist.eofs

\* The first call on a buffer of several whitespace bytes, a line break among
\* them, has written EOF.
C19_Witness ==
  /\ WhitespaceOnly
  /\ Len(buf) >= 2
  /\ \E i \in 1..Len(buf) : buf[i] = "\n"
  /\ \E i \in 1..Len(buf) : buf[i] \in {"\r", "\f", "\t"}
  /\ Wrote(TOKEN_EOF)
  /\ Len(toks) = 1
  /\ last.entry_curr = 0

-----------------------------------------------------------------------------
\* C20: every call that returns 0 makes progress towards EOF: it writes EOF,
\* or leaves curr strictly behind where it found it, or writes a zero-length
\* STRING and arms pending-substitution-open; so a caller that goes on while
\* the return value is 0 cannot be handed 0 forever without an EOF.
C20_ZeroReturnProgresses ==
  (last.called /\ last.ret = 0)
    => \/ Wrote(TOKEN_EOF)
       \/ curr > last.entry_curr
       \/ Wrote(TOKEN_STRING) /\ tok.len = 0 /\ flag = FLAG__PENDING_T_BRACE

-----------------------------------------------------------------------------
\* C21: a call that returns a negative value leaves depth, the stack bits and
\* the flag as they were on entry, so that the same call repeated finds the
\* state it failed in; after an overflow on a pending "${" the flag is still
\* pending-substitution-open.
C21_ErrorLeavesState ==
  (last.called /\ last.ret < 0)
    => /\ depth = last.depth0
       /\ stack = last.stack0
       /\ flag = last.flag0
       /\ Len(toks) = last.ntoks0

-----------------------------------------------------------------------------
\* The first EOF token written in this run (when one was written).
FirstEof == toks[Min({i \in 1..Len(toks) : toks[i].type = TOKEN_EOF})]

-----------------------------------------------------------------------------
\* The last call found a comment opening at the start of its token.
CommentStarted == Dispatched /\ last.c = "/" /\ last.next \in {"/", "*"}

\* Offsets, two bytes or more behind the start of the token, where the
\* comment can end: a "*/" for a block comment, a '\n' for a line comment.
CommentEnds ==
  IF last.next = "*"
  THEN {i \in (last.start + 2)..(Len(buf) - 2) : buf[i + 1] = "*" /\ buf[i + 2] = "/"}
  ELSE {i \in (last.start + 2)..(Len(buf) - 1) : buf[i + 1] = "\n"}

\* The comment rules of C23 with the length of the first token of the
\* two-line example left open.
CommentRules(example_len) ==
  /\ (CommentStarted /\ CommentEnds # {})
       => /\ Wrote(TOKEN_COMMENT)
          /\ last.ret = 0
          /\ last.checked = 0
          /\ tok.p = last.start
          /\ tok.len = IF last.next = "*" THEN Min(CommentEnds) + 2 - tok.p
                                          ELSE Min(CommentEnds) - tok.p
          /\ curr = tok.p + tok.len
          /\ line_no = tok.line_no + CountNewlines(buf, tok.p, tok.p + tok.len)
  /\ buf = TwoLineComment
       => /\ StreamWithin(<< <<TOKEN_COMMENT, example_len>>, <<TOKEN_LIT, 1>> >>)
          /\ last.ret = 0
          /\ Wrote(TOKEN_EOF) => tok.line_no = 2

\* C23 as stated: a block comment runs from its opening through the first
\* "*/" that begins two bytes or more behind the token start, and its newlines
\* are added to line_no; a line comment ends just before the next newline;
\* the oracle is not asked; the two-line example is COMMENT(15) LIT(1) EOF(0)
\* with EOF on line 2.
C23_Original == CommentRules(15)

\* C23, amended: the same rules; the two-line example is COMMENT(17) LIT(1)
\* EOF(0) with EOF on line 2.
C23_Amended == CommentRules(17)

\* The two-line example scanned to its first EOF.
C23_Witness ==
  /\ buf = TwoLineComment
  /\ Wrote(TOKEN_EOF)
  /\ Len(toks) = 3
  /\ toks[1].type = TOKEN_COMMENT /\ toks[2].line_no = 2

-----------------------------------------------------------------------------
\* The bytes of the buffer from the start of token t on begin with prefix.
StartsWith(t, prefix) ==
  \A k \in 1..Len(prefix) : ByteAt(buf, t.p + k - 1) = prefix[k]

\* Token t is an OP of this length.
IsOp(t, len) == t.type = TOKEN_OP /\ t.len = len

\* C24: operators are a bounded longest match: ">>>=" is one OP of length 4
\* and ">>>>" is OP(3) then OP(1); "=>" is ARROW of length 2; "===" and "!=="
\* are one OP of length 3 and "<==" is OP(2) then OP(1); "++", "--", "||" and
\* "&&" are one OP of length 2 that takes in neither a third such byte nor a
\* following '='; every OP and ARROW is 1 to 4 bytes long.
C24_OperatorLongestMatch ==
  \A i \in 1..Len(toks) :
    LET t == toks[i]
        HasNext == i < Len(toks)
    IN /\ t.type \in {TOKEN_OP, TOKEN_ARROW} => t.len \in 1..4
       /\ t.type = TOKEN_ARROW => t.len = 2 /\ StartsWith(t, <<"=", ">">>)
       /\ StartsWith(t, <<">", ">", ">", "=">>) => IsOp(t, 4)
       /\ StartsWith(t, <<">", ">", ">", ">">>)
            => IsOp(t, 3) /\ (HasNext => toks[i + 1].p = t.p + 3)
       /\ StartsWith(t, <<"=", ">">>) => t.type = TOKEN_ARROW /\ t.len = 2
       /\ StartsWith(t, <<"=", "=", "=">>) => IsOp(t, 3)
       /\ StartsWith(t, <<"!", "=", "=">>) => IsOp(t, 3)
       /\ StartsWith(t, <<"<", "=", "=">>)
            => IsOp(t, 2) /\ (HasNext => toks[i + 1].p = t.p + 2)
       /\ \A x \in {"+", "-", "|", "&"} : StartsWith(t, <<x, x>>) => IsOp(t, 2)
       /\ buf = <<">", ">", ">", ">">>
            => StreamWithin(<< <<TOKEN_OP, 3>>, <<TOKEN_OP, 1>> >>)
       /\ buf = <<"<", "=", "=">>
            => StreamWithin(<< <<TOKEN_OP, 2>>, <<TOKEN_OP, 1>> >>)
       /\ buf = <<">", ">", ">", "=">> => StreamWithin(<< <<TOKEN_OP, 4>> >>)

\* ">>>>" scanned to its first EOF as two operators, and a doubled operator
\* with a '=' behind it scanned likewise.
C24_Witness ==
  /\ Wrote(TOKEN_EOF)
  /\ Len(toks) = 3
  /\ \/ buf = <<">", ">", ">", ">">> /\ toks[1].len = 3
     \/ buf = <<"&", "&", "=">> /\ toks[1].len = 2

-----------------------------------------------------------------------------
\* The offset of the first '/' at or after offset i that is neither escaped
\* by a backslash nor inside a character class, read byte by byte with
\* inclass telling whether a '[' is open; -1 when the buffer has none.
RECURSIVE RegexpClose(_, _, _)
RegexpClose(b, i, inclass) ==
  LET c == ByteAt(b, i)
  IN IF i >= Len(b) THEN -1
     ELSE IF c = "\\" THEN RegexpClose(b, i + 2, inclass)
     ELSE IF c = "[" THEN RegexpClose(b, i + 1, TRUE)
     ELSE IF c = "]" THEN RegexpClose(b, i + 1, FALSE)
     ELSE IF c = "/" /\ ~inclass THEN i
     ELSE RegexpClose(b, i + 1, inclass)

\* C25: a REGEXP token ends at the first '/' behind the opening one that is
\* neither escaped nor inside a character class, followed by the longest run
\* of alphanumeric flag bytes; /[/]/g and /\//g are each one REGEXP over the
\* whole input, and an escaped '[' opens no character class.
C25_RegexpEnd ==
  /\ Wrote(TOKEN_REGEXP)
       => LET close == RegexpClose(buf, tok.p + 1, FALSE)
              end == tok.p + tok.len
          IN /\ last.ret = 0
             /\ ByteAt(buf, tok.p) = "/"
             /\ last.checked = 1 /\ last.answer = 0
             /\ close # -1
                  => /\ end > close
                     /\ end <= Len(buf)
                     /\ \A j \in (close + 1)..(end - 1) : isalnum(ByteAt(buf, j))
                     /\ ~isalnum(ByteAt(buf, end))
  /\ (buf \in { <<"/", "[", "/", "]", "/", "g">>, <<"/", "\\", "/", "/", "g">> }
        /\ last.called /\ last.entry_curr = 0 /\ last.answer = 0)
       => Wrote(TOKEN_REGEXP) /\ tok.p = 0 /\ tok.len = Len(buf)
  /\ (buf = <<"/", "\\", "[", "/", "]", "/">>
        /\ last.called /\ last.entry_curr = 0 /\ last.answer = 0)
       => Wrote(TOKEN_REGEXP) /\ tok.p = 0 /\ tok.len = 4

\* A regexp with a slash inside a character class and a flag behind it was
\* written as one token.
C25_Witness ==
  /\ buf = <<"/", "[", "/", "]", "/", "g">>
  /\ Wrote(TOKEN_REGEXP)
  /\ tok.len = 6

=============================================================================
